---- MODULE Spec2Model ----
(***************************************************************************)
(* Origin-copy migration of the Skoda entity tree (vehicle, specification, *)
(* engine, exterior dimensions, gearbox, service partner) and the          *)
(* debug-log key sanitizer.                                                *)
(*                                                                         *)
(* The Python object graph is a heap: a sequence of objects addressed by   *)
(* their index.  An object has a class, a parent reference (0 is None), a  *)
(* value (attributes only), the instance dictionary `flds` (attribute name *)
(* -> object id; hasattr(o, f) is f \in DOMAIN flds) and `org`, the object *)
(* it was migration-constructed from (0 for a fresh construction).         *)
(* `last` names the last call and `prev` holds the heap it was made on.    *)
(* `environ` is the value of CARCONNECTIVITY_SHOW_EXTRA_KEYS and `log` the  *)
(* records the logger received.  Strings that are inspected character by   *)
(* character are sequences of one-character strings.                       *)
(***************************************************************************)
EXTENDS Integers, Sequences, FiniteSets, TLC

VARIABLES heap, prev, failed, last, nops, nroots, nset, ndrop, SUPPORT_IMAGES, environ, log

vars == <<heap, prev, failed, last, nops, nroots, nset, ndrop, SUPPORT_IMAGES, environ, log>>

\* ------------------------------------------------------------- bounds
MaxObj == 64
MaxOps == 3
MaxRoots == 1
MaxSet == 1
MaxDrop == 1

\* ------------------------------------------------------------- values
None == "None"
\* the literal brand string of vehicle.py:121 (written in ASCII here)
Brand == "Skoda"
Values == {"v1"}

\* ------------------------------------------------------------ classes
VehicleClasses ==
  {"SkodaVehicle", "SkodaElectricVehicle", "SkodaCombustionVehicle", "SkodaHybridVehicle"}
\* isinstance(origin, ElectricVehicle): HybridVehicle derives from ElectricVehicle
ElectricClasses == {"SkodaElectricVehicle", "SkodaHybridVehicle"}
PartClasses == {"Engine", "ExteriorDimensions", "Gearbox", "Specification", "ServicePartner"}

EngineFields == <<"type", "powerInKW", "capacityInLiters">>
ExteriorDimensionsFields == <<"lengthInMm", "widthInMm", "heightInMm">>
GearboxFields == <<"type">>
SpecificationAttrs ==
  <<"title", "manufacturing_date", "trim_level", "system_code", "system_model_id",
    "body", "exterior_colour", "model_year", "steering_wheel_position">>
SpecificationNested == <<"exteriorDimensions", "engine", "gearbox">>
NestedClass(f) ==
  CASE f = "exteriorDimensions" -> "ExteriorDimensions"
    [] f = "engine" -> "Engine"
    [] f = "gearbox" -> "Gearbox"
\* the fields SkodaVehicle copies behind a hasattr check, in source order
VehicleGuarded ==
  <<"raw_api", "extras", "title", "system_model_id", "priority", "device_platform",
    "skoda_state", "workshop_mode_enabled", "service_partner", "renders",
    "composite_renders", "composite_render_urls">>
\* the flat attributes a fresh SkodaVehicle allocates, in source order
VehicleFreshAttrs ==
  <<"in_motion", "raw_api", "extras", "renders", "composite_renders",
    "composite_render_urls", "title", "system_model_id", "priority",
    "device_platform", "skoda_state", "workshop_mode_enabled">>
LegacySpecFields ==
  <<[src |-> "spec_engine_fuel_type", dst |-> "engine_fuel_type"],
    [src |-> "spec_exterior_colour", dst |-> "exterior_colour"],
    [src |-> "spec_model_year", dst |-> "model_year"]>>

Range(s) == {s[i] : i \in DOMAIN s}

\* ----------------------------------------------------------- the heap
Obj(cls, parent, org) ==
  [cls |-> cls, parent |-> parent, val |-> None, flds |-> <<>>, org |-> org]

Has(h, o, f) == f \in DOMAIN h[o].flds
Fld(h, o, f) == h[o].flds[f]

\* setattr(self, f, v)
SetAttr(h, self, f, v) ==
  [h EXCEPT ![self].flds =
     [x \in (DOMAIN @) \cup {f} |-> IF x = f THEN v ELSE @[x]]]

\* x.parent = p
SetParent(h, x, p) == [h EXCEPT ![x].parent = p]

\* self.f = <Kind>Attribute(name=f, parent=self, tags={'connector_custom'})
NewAttribute(h, self, f) ==
  SetAttr(Append(h, Obj("attr", self, 0)), self, f, Len(h) + 1)

\* the heap is exhausted: a constructor stops allocating, and the call is not
\* part of the model (see Constructed)
Full(h) == Len(h) > MaxObj

RECURSIVE NewAttributes(_, _, _)
NewAttributes(h, self, names) ==
  IF names = <<>> \/ Full(h) THEN h
  ELSE NewAttributes(NewAttribute(h, self, Head(names)), self, Tail(names))

\* GenericObject.__init__(object_id, parent, origin) of the base framework:
\* allocates the entity and links it under `parent`
GenericObjectInit(h, cls, parent, origin) == Append(h, Obj(cls, parent, origin))

\* A constructor maps the heap before the call to the heap after it; the
\* object it returns is the first one it allocates, Len(h) + 1.

\* ------------------------------------------ specification.py: helpers
\* a take-over that forgets to re-parent the attribute
copy_attribute_from_origin_noparent(h, self, origin, attr_name) ==
  IF Has(h, origin, attr_name)
  THEN SetAttr(h, self, attr_name, Fld(h, origin, attr_name))
  ELSE h

\* _copy_attribute_from_origin (Engine, ExteriorDimensions, Gearbox and
\* Specification each define the same method)
copy_attribute_from_origin(h, self, origin, attr_name) ==
  IF Has(h, origin, attr_name)
  THEN SetParent(SetAttr(h, self, attr_name, Fld(h, origin, attr_name)),
                 Fld(h, origin, attr_name), self)
  ELSE h

RECURSIVE CopyAttributes(_, _, _, _)
CopyAttributes(h, self, origin, names) ==
  IF names = <<>> \/ Full(h) THEN h
  ELSE CopyAttributes(copy_attribute_from_origin(h, self, origin, Head(names)),
                      self, origin, Tail(names))

\* the body of a flat entity's constructor, after GenericObject.__init__
FlatBody(h0, self, origin, names) ==
  IF origin # 0 THEN CopyAttributes(h0, self, origin, names)
  ELSE NewAttributes(h0, self, names)

EngineInit(h, parent, origin) ==
  FlatBody(GenericObjectInit(h, "Engine", parent, origin), Len(h) + 1, origin, EngineFields)

ExteriorDimensionsInit(h, parent, origin) ==
  FlatBody(GenericObjectInit(h, "ExteriorDimensions", parent, origin), Len(h) + 1, origin,
           ExteriorDimensionsFields)

GearboxInit(h, parent, origin) ==
  FlatBody(GenericObjectInit(h, "Gearbox", parent, origin), Len(h) + 1, origin, GearboxFields)

\* object_class(parent=..., origin=...) for the three nested classes
NestedInit(cls, h, parent, origin) ==
  CASE cls = "Engine" -> EngineInit(h, parent, origin)
    [] cls = "ExteriorDimensions" -> ExteriorDimensionsInit(h, parent, origin)
    [] cls = "Gearbox" -> GearboxInit(h, parent, origin)

\* Specification._copy_nested_object_from_origin
copy_nested_object_from_origin(h, self, origin, attr_name, object_class) ==
  SetAttr(NestedInit(object_class, h, self,
                     IF Has(h, origin, attr_name) THEN Fld(h, origin, attr_name) ELSE 0),
          self, attr_name, Len(h) + 1)

RECURSIVE CopyNested(_, _, _, _)
CopyNested(h, self, origin, names) ==
  IF names = <<>> \/ Full(h) THEN h
  ELSE CopyNested(
         copy_nested_object_from_origin(h, self, origin, Head(names), NestedClass(Head(names))),
         self, origin, Tail(names))

\* self.f = object_class(parent=self) for the three nested objects
RECURSIVE NewNested(_, _, _)
NewNested(h, self, names) ==
  IF names = <<>> \/ Full(h) THEN h
  ELSE NewNested(SetAttr(NestedInit(NestedClass(Head(names)), h, self, 0),
                         self, Head(names), Len(h) + 1),
                 self, Tail(names))

\* an initialisation that forgets the nested sub-entities
initialize_attributes_flat(h, self) == NewAttributes(h, self, SpecificationAttrs)

\* Specification._initialize_attributes
initialize_attributes(h, self) ==
  NewNested(NewAttributes(h, self, SpecificationAttrs), self, SpecificationNested)

SpecificationBody(h0, self, origin) ==
  IF origin # 0
  THEN CopyNested(CopyAttributes(h0, self, origin, SpecificationAttrs),
                  self, origin, SpecificationNested)
  ELSE initialize_attributes(h0, self)

SpecificationInit(h, parent, origin) ==
  SpecificationBody(GenericObjectInit(h, "Specification", parent, origin), Len(h) + 1, origin)

\* -------------------------------------------------- service_partner.py
\* attr._set_value(v)
set_value(h, attr, v) == [h EXCEPT ![attr].val = v]

\* the try block of ServicePartner._copy_attributes_from_origin, after the new
\* attribute was built (lines 43-44)
copy_value(h1, self, origin) ==
  IF Has(h1, origin, "service_partner_id")
     /\ h1[Fld(h1, origin, "service_partner_id")].val # None
  THEN set_value(h1, Fld(h1, self, "service_partner_id"),
                 h1[Fld(h1, origin, "service_partner_id")].val)
  ELSE h1

\* a copy that takes the origin's attribute over, as the other entities do
copy_attributes_from_origin_reparent(h, self, origin) ==
  copy_attribute_from_origin(h, self, origin, "service_partner_id")

\* ServicePartner._copy_attributes_from_origin.  The except branch rebuilds
\* the same empty attribute; no object of this model makes the try block fail.
copy_attributes_from_origin(h, self, origin) ==
  copy_value(NewAttribute(h, self, "service_partner_id"), self, origin)

ServicePartnerBody(h0, self, origin) ==
  IF origin # 0 THEN copy_attributes_from_origin(h0, self, origin)
  ELSE NewAttribute(h0, self, "service_partner_id")

\* line 25 is super().__init__(object_id='service_partner', parent=parent):
\* unlike the specification classes, the origin is not handed to the base
\* constructor, so the new instance is a fresh object and the origin is kept
ServicePartnerInit(h, parent, origin) ==
  ServicePartnerBody(GenericObjectInit(h, "ServicePartner", parent, 0), Len(h) + 1, origin)

PartInit(cls, h, parent, origin) ==
  CASE cls = "Specification" -> SpecificationInit(h, parent, origin)
    [] cls = "ServicePartner" -> ServicePartnerInit(h, parent, origin)
    [] OTHER -> NestedInit(cls, h, parent, origin)

\* ------------------------------------------------------------ vehicle.py
\* self.f = origin.f ; self.f.parent = self  (lines 38-41, no hasattr)
take_over(h, self, origin, f) ==
  SetParent(SetAttr(h, self, f, Fld(h, origin, f)), Fld(h, origin, f), self)

\* self.f = <object allocated next>
NewObject(h, self, f, cls, parent, org) ==
  SetAttr(Append(h, Obj(cls, parent, org)), self, f, Len(h) + 1)

\* GenericVehicle.__init__ of the base framework, as far as this code reads
\* it: the vehicle owns `manufacturer` (line 121) and `climatization`
\* (line 99); with an origin both are taken over from it.
GenericVehicleBody(h0, self, origin) ==
  IF origin # 0
  THEN take_over(take_over(h0, self, origin, "manufacturer"), self, origin, "climatization")
  ELSE NewObject(NewAttribute(h0, self, "manufacturer"), self, "climatization",
                 "Climatization", self, 0)

GenericVehicleInit(h, cls, origin) ==
  GenericVehicleBody(GenericObjectInit(h, cls, 0, origin), Len(h) + 1, origin)

\* if hasattr(origin, f): self.f = origin.f ; self.f.parent = self  (lines 43-79)
take_over_if_present(h, self, origin, f) ==
  IF Has(h, origin, f) THEN take_over(h, self, origin, f) ELSE h

RECURSIVE TakeOverGuarded(_, _, _, _)
TakeOverGuarded(h, self, origin, names) ==
  IF names = <<>> \/ Full(h) THEN h
  ELSE TakeOverGuarded(take_over_if_present(h, self, origin, Head(names)),
                       self, origin, Tail(names))

\* lines 85-93: an origin without `specification` may carry the flat spec_*
\* attributes, which move onto the new Specification
RECURSIVE LegacySpec(_, _, _, _)
LegacySpec(h, spec, origin, pairs) ==
  IF pairs = <<>> \/ Full(h) THEN h
  ELSE LegacySpec(IF Has(h, origin, Head(pairs).src)
                  THEN SetParent(SetAttr(h, spec, Head(pairs).dst, Fld(h, origin, Head(pairs).src)),
                                 Fld(h, origin, Head(pairs).src), spec)
                  ELSE h,
                  spec, origin, Tail(pairs))

\* lines 81-93
migrate_specification(h, self, origin) ==
  IF Has(h, origin, "specification")
  THEN SetAttr(SpecificationInit(h, self, Fld(h, origin, "specification")),
               self, "specification", Len(h) + 1)
  ELSE LegacySpec(SetAttr(SpecificationInit(h, self, 0), self, "specification", Len(h) + 1),
                  Len(h) + 1, origin, LegacySpecFields)

\* a constructor that leaves the manufacturer as the base class set it
set_brand_skipped(h, self) == h

\* line 121: self.manufacturer._set_value(value='Skoda')
set_brand(h, self) == set_value(h, Fld(h, self, "manufacturer"), Brand)

\* lines 94-95 and 121, reached with the specification in place
origin_images(h4, self, origin, images) ==
  IF images /\ ~Has(h4, origin, "_car_images") THEN h4
  ELSE set_brand(IF images
                 THEN SetAttr(h4, self, "_car_images", Fld(h4, origin, "_car_images"))
                 ELSE h4, self)

\* lines 40-96, reached with capabilities taken over
origin_in_motion(h1, self, origin, images) ==
  IF ~Has(h1, origin, "in_motion") THEN h1
  ELSE origin_images(
         migrate_specification(
           TakeOverGuarded(take_over(h1, self, origin, "in_motion"), self, origin, VehicleGuarded),
           self, origin),
         self, origin, images)

\* lines 38-96, reached with the base constructor done
origin_capabilities(h0, self, origin, images) ==
  IF ~Has(h0, origin, "capabilities") THEN h0
  ELSE origin_in_motion(take_over(h0, self, origin, "capabilities"), self, origin, images)

\* lines 36-96: the origin branch.  Where an AttributeError leaves the
\* constructor the heap stays as the statements before it left it.
SkodaVehicleFromOrigin(h, cls, origin, images) ==
  origin_capabilities(GenericVehicleInit(h, cls, origin), Len(h) + 1, origin, images)

\* the unguarded reads of the origin branch (lines 38, 40 and 95): the
\* constructor raises AttributeError when the origin lacks one of them
Raises(h, origin, images) ==
  /\ origin # 0
  /\ \/ ~Has(h, origin, "capabilities")
     \/ ~Has(h, origin, "in_motion")
     \/ images /\ ~Has(h, origin, "_car_images")

\* lines 116-120
fresh_tail(h3, self, images) ==
  set_brand(
    IF images
    THEN NewObject(SetAttr(SpecificationInit(h3, self, 0), self, "specification", Len(h3) + 1),
                   self, "_car_images", "dict", 0, 0)
    ELSE SetAttr(SpecificationInit(h3, self, 0), self, "specification", Len(h3) + 1),
    self)

\* line 116
fresh_service_partner(h2, self) ==
  SetAttr(ServicePartnerInit(h2, self, 0), self, "service_partner", Len(h2) + 1)

\* lines 99-100.  SkodaClimatization and Capabilities are classes of this
\* package whose source is not part of the stash.
fresh_head(h0, self) ==
  NewObject(NewObject(h0, self, "climatization", "SkodaClimatization", self,
                      Fld(h0, self, "climatization")),
            self, "capabilities", "Capabilities", self, 0)

\* lines 97-120: the fresh branch
SkodaVehicleFresh(h, cls, images) ==
  fresh_tail(
    fresh_service_partner(
      NewAttributes(fresh_head(GenericVehicleInit(h, cls, 0), Len(h) + 1),
                    Len(h) + 1, VehicleFreshAttrs),
      Len(h) + 1),
    Len(h) + 1, images)

SkodaVehicleInit(h, cls, origin, images) ==
  IF origin # 0 THEN SkodaVehicleFromOrigin(h, cls, origin, images)
  ELSE SkodaVehicleFresh(h, cls, images)

\* ElectricVehicle.__init__ of the base framework, after the SkodaVehicle part
\* of the constructor chain: an electric origin hands over its charging
\* object, any other construction gets a default one.
ElectricVehicleInit(h, self, origin) ==
  IF origin # 0 /\ h[origin].cls \in ElectricClasses
  THEN take_over(h, self, origin, "charging")
  ELSE NewObject(h, self, "charging", "Charging", self, 0)

\* lines 132-135 and 138: the object SkodaCharging is migrated from
charging_origin(h, self, origin) ==
  IF origin # 0 /\ h[origin].cls \in ElectricClasses
  THEN Fld(h, origin, "charging")
  ELSE Fld(h, self, "charging")

\* SkodaCharging(vehicle=self, origin=o): a class of this package whose source
\* is not part of the stash
SkodaChargingInit(h, vehicle, o) == NewObject(h, vehicle, "charging", "SkodaCharging", vehicle, o)

\* an electric constructor that keeps the generic charging object
skoda_charging_skipped(h2, self, cls, origin) == h2

\* lines 130-138: SkodaElectricVehicle wraps the charging object
skoda_charging(h2, self, cls, origin) ==
  IF cls = "SkodaElectricVehicle"
  THEN SkodaChargingInit(h2, self, charging_origin(h2, self, origin))
  ELSE h2

\* the four vehicle constructors (lines 34-162); the constructor chain of an
\* electric or hybrid class runs the electric part after the SkodaVehicle part
ElectricPart(h1, self, cls, origin, raised) ==
  IF raised \/ cls \notin ElectricClasses THEN h1
  ELSE skoda_charging(ElectricVehicleInit(h1, self, origin), self, cls, origin)

VehicleInit(h, cls, origin, images) ==
  ElectricPart(SkodaVehicleInit(h, cls, origin, images), Len(h) + 1, cls, origin,
               Raises(h, origin, images))


\* ------------------------------------------------------ util_override.py
MaxCalls == 2
MaxKeys == 2
\* _truncate's default max_len
max_len == 300

Unset == [set |-> FALSE, val |-> <<>>]
EnvValue(v) == [set |-> TRUE, val |-> v]
ToggleValues ==
  {<<"0">>, <<"1">>, <<"1", "1">>, <<"t", "r", "u", "e">>, <<"T", "r", "u", "e">>,
   <<"T", "R", "U", "E">>, <<"t", "R", "u", "E">>, <<>>}

\* os.getenv(name, default)
getenv(env, default) == IF env.set THEN env.val ELSE default

Keys == {"a", "b", "password", "blob"}
KeyChars(k) ==
  CASE k = "a" -> <<"a">>
    [] k = "b" -> <<"b">>
    [] k = "password" -> <<"p", "a", "s", "s", "w", "o", "r", "d">>
    [] k = "blob" -> <<"b", "l", "o", "b">>
Rep(c, n) == [i \in 1..n |-> c]
\* the values the API answers hold: short ones, a secret, and a long blob
ValuesOf(k) ==
  CASE k = "a" -> {Rep("x", 1)}
    [] k = "b" -> {Rep("y", 2)}
    [] k = "password" -> {Rep("#", 3)}
    [] k = "blob" -> {Rep("z", max_len - 12), Rep("z", max_len - 11), Rep("z", max_len)}
\* a dict: its items in insertion order, the keys distinct
Dicts ==
  {d \in UNION {[1..n -> [k : Keys, v : UNION {ValuesOf(k) : k \in Keys}]] : n \in 0..MaxKeys} :
     /\ \A i \in DOMAIN d : d[i].v \in ValuesOf(d[i].k)
     /\ \A i, j \in DOMAIN d : i # j => d[i].k # d[j].k}
DictKeys(d) == {d[i].k : i \in DOMAIN d}
AllowedSets == {{}, {"a"}, Keys}
NoAllowed == [none |-> TRUE, keys |-> {}]
Allowed(ks) == [none |-> FALSE, keys |-> ks]
Labels == {"vehicles", "charging"}

\* config_remove_credentials of the base framework: the values of credential
\* keys are replaced by '***'
CredentialKeys == {"password"}
config_remove_credentials(d) ==
  [i \in DOMAIN d |-> IF d[i].k \in CredentialKeys
                      THEN [k |-> d[i].k, v |-> <<"*", "*", "*">>]
                      ELSE d[i]]

\* json.dumps(obj, default=str, ensure_ascii=False) of a dict of strings
RECURSIVE DumpItems(_)
DumpItems(d) ==
  IF d = <<>> THEN <<>>
  ELSE <<"\"">> \o KeyChars(Head(d).k) \o <<"\"", ":", " ", "\"">> \o Head(d).v \o <<"\"">>
       \o (IF Tail(d) = <<>> THEN <<>> ELSE <<",", " ">> \o DumpItems(Tail(d)))
dumps(d) == <<"{">> \o DumpItems(d) \o <<"}">>

\* the objects _truncate is given beyond the API answers above: a dict may
\* hold a key json.dumps cannot write (a tuple), and its blob may have any
\* length around the cap
BlobSlack == 24
TupleKey == "(1,)"
TruncKeys == {"a", "blob", TupleKey}
TruncValuesOf(k) ==
  CASE k = "blob" -> {Rep("z", n) : n \in (max_len - BlobSlack)..(max_len + 2)}
    [] OTHER -> {Rep("x", 1)}
TruncObjects ==
  {d \in UNION {[1..n -> [k : TruncKeys, v : UNION {TruncValuesOf(k) : k \in TruncKeys}]] :
                  n \in 1..MaxKeys} :
     /\ \A i \in DOMAIN d : d[i].v \in TruncValuesOf(d[i].k)
     /\ \A i, j \in DOMAIN d : i # j => d[i].k # d[j].k}

\* line 22 raises: json.dumps rejects a key that is not str, int, float, bool
\* or None (default=str is applied to values only)
dumps_raises(obj) == \E i \in DOMAIN obj : obj[i].k = TupleKey

\* repr of a key, as str(dict) writes it
KeyRepr(k) ==
  IF k = TupleKey THEN <<"(", "1", ",", ")">>
  ELSE <<"'">> \o KeyChars(k) \o <<"'">>

\* line 24: str(obj) of a dict of strings
RECURSIVE StrItems(_)
StrItems(d) ==
  IF d = <<>> THEN <<>>
  ELSE KeyRepr(Head(d).k) \o <<":", " ", "'">> \o Head(d).v \o <<"'">>
       \o (IF Tail(d) = <<>> THEN <<>> ELSE <<",", " ">> \o StrItems(Tail(d)))
str(obj) == <<"{">> \o StrItems(obj) \o <<"}">>

\* lines 21-24: s = json.dumps(...), or str(obj) when that raises
serialize(obj) == IF dumps_raises(obj) THEN str(obj) ELSE dumps(obj)

\* a cut that keeps the whole rendering within max_len
truncate_within(obj, maxlen) ==
  IF Len(serialize(obj)) > maxlen
  THEN SubSeq(serialize(obj), 1, maxlen - 3) \o <<".", ".", ".">>
  ELSE serialize(obj)

\* _truncate(obj, max_len=300)
truncate(obj, maxlen) ==
  IF Len(serialize(obj)) > maxlen
  THEN SubSeq(serialize(obj), 1, maxlen) \o <<".", ".", ".">>
  ELSE serialize(obj)

\* a toggle test that lower-cases the value first
show_info_anycase(env) ==
  getenv(env, <<"0">>) \in {<<"1">>, <<"t", "r", "u", "e">>, <<"T", "r", "u", "e">>,
                            <<"T", "R", "U", "E">>, <<"t", "R", "u", "E">>}

\* line 42: os.getenv(..., '0') in ('1', 'true', 'True')
show_info(env) ==
  getenv(env, <<"0">>) \in {<<"1">>, <<"t", "r", "u", "e">>, <<"T", "r", "u", "e">>}

\* a key test that ignores the allowed keys
extra_keys_all(dictionary, allowed_keys) == DictKeys(dictionary)

\* lines 36-38: the keys of the dictionary that are not allowed
extra_keys(dictionary, allowed_keys) ==
  DictKeys(dictionary) \ (IF allowed_keys.none THEN {} ELSE allowed_keys.keys)

\* lines 42-49: the record handed to log.info or log.debug
record(where, dictionary, allowed_keys, env) ==
  [level |-> IF show_info(env) THEN "INFO" ELSE "DEBUG",
   where |-> where,
   extra |-> extra_keys(dictionary, allowed_keys),
   dictionary |-> truncate(config_remove_credentials(dictionary), max_len)]

\* log_extra_keys(log, where, dictionary, allowed_keys)
log_extra_keys(lg, where, dictionary, allowed_keys, env) ==
  IF extra_keys(dictionary, allowed_keys) = {} THEN lg
  ELSE Append(lg, record(where, dictionary, allowed_keys, env))

\* ------------------------------------------------------------- the system
Ids(h) == DOMAIN h
IsEntity(h, o) == h[o].cls \in VehicleClasses \cup PartClasses
\* an object is discarded once a completed construction was migrated from it
Discarded(h, f, o) == \E x \in Ids(h) \ f : h[x].org = o
\* a live entity: completely constructed and not discarded
Live(h, f, o) == o \notin f /\ ~Discarded(h, f, o)

\* the fields a caller may find missing on an origin (an object of an older or
\* foreign class): those this code reads from an origin
Droppable(cls) ==
  CASE cls \in VehicleClasses ->
         {"capabilities", "in_motion", "specification", "_car_images"} \cup Range(VehicleGuarded)
    [] cls = "Specification" -> Range(SpecificationAttrs) \cup Range(SpecificationNested)
    [] cls = "Engine" -> Range(EngineFields)
    [] cls = "ExteriorDimensions" -> Range(ExteriorDimensionsFields)
    [] cls = "Gearbox" -> Range(GearboxFields)
    [] cls = "ServicePartner" -> {"service_partner_id"}

\* the environment acts on freshly constructed trees: the API client fills an
\* entity, or an origin of an older class lacks a field, before it is migrated
Pristine(h, f, o) == h[o].org = 0 /\ Live(h, f, o)

EnvOp == [op |-> "env", cls |-> "none", id |-> 0, origin |-> 0, ok |-> TRUE]
NoOp == [op |-> "none", cls |-> "none", id |-> 0, origin |-> 0, ok |-> TRUE]

Init ==
  /\ heap = <<>>
  /\ prev = <<>>
  /\ failed = {}
  /\ last = NoOp
  /\ nops = 0
  /\ nroots = 0
  /\ nset = 0
  /\ ndrop = 0
  /\ SUPPORT_IMAGES \in BOOLEAN
  /\ environ = Unset
  /\ log = <<>>

\* a constructor call: h2 is the heap it leaves, ok whether it returned
Constructed(h2, ok, op, cls, origin) ==
  /\ nops < MaxOps
  /\ op = "fresh" => nroots < MaxRoots
  /\ Len(h2) <= MaxObj
  /\ heap' = h2
  /\ prev' = heap
  /\ failed' = IF ok THEN failed ELSE failed \cup {Len(heap) + 1}
  /\ last' = [op |-> op, cls |-> cls, id |-> Len(heap) + 1, origin |-> origin, ok |-> ok]
  /\ nops' = nops + 1
  /\ nroots' = IF op = "fresh" THEN nroots + 1 ELSE nroots
  /\ UNCHANGED <<nset, ndrop, SUPPORT_IMAGES, environ, log>>

\* Skoda*Vehicle(vin, garage, managing_connector)
FreshVehicle(cls) ==
  /\ Constructed(VehicleInit(heap, cls, 0, SUPPORT_IMAGES), TRUE, "fresh", cls, 0)

\* Skoda*Vehicle(garage=garage, origin=origin)
MigrateVehicle(cls, origin) ==
  /\ heap[origin].cls \in VehicleClasses
  /\ Live(heap, failed, origin)
  /\ Constructed(VehicleInit(heap, cls, origin, SUPPORT_IMAGES),
                 ~Raises(heap, origin, SUPPORT_IMAGES), "migrate", cls, origin)

\* Engine(), ExteriorDimensions(), Gearbox(), Specification(), ServicePartner()
FreshPart(cls) ==
  /\ Constructed(PartInit(cls, heap, 0, 0), TRUE, "fresh", cls, 0)

\* <Class>(origin=origin) on an entity that is the root of its own tree
MigratePart(origin) ==
  /\ heap[origin].cls \in PartClasses
  /\ heap[origin].parent = 0
  /\ Live(heap, failed, origin)
  /\ Constructed(PartInit(heap[origin].cls, heap, 0, origin), TRUE,
                 "migrate", heap[origin].cls, origin)

\* the API client stores a value in an attribute
SetValue(a, v) ==
  /\ nset < MaxSet
  /\ heap[a].cls = "attr"
  /\ heap[a].parent # 0
  /\ Pristine(heap, failed, heap[a].parent)
  /\ heap[a].val # v
  /\ heap' = set_value(heap, a, v)
  /\ prev' = <<>>
  /\ last' = EnvOp
  /\ nset' = nset + 1
  /\ UNCHANGED <<failed, nops, nroots, ndrop, SUPPORT_IMAGES, environ, log>>

\* an origin that does not possess field f
DropField(e, f) ==
  /\ ndrop < MaxDrop
  /\ IsEntity(heap, e)
  /\ f \in DOMAIN heap[e].flds
  /\ f \in Droppable(heap[e].cls)
  /\ Pristine(heap, failed, e)
  /\ heap' = [heap EXCEPT ![e].flds = [x \in (DOMAIN @) \ {f} |-> @[x]]]
  /\ prev' = <<>>
  /\ last' = EnvOp
  /\ ndrop' = ndrop + 1
  /\ UNCHANGED <<failed, nops, nroots, nset, SUPPORT_IMAGES, environ, log>>

Next ==
  \/ \E cls \in VehicleClasses : FreshVehicle(cls)
  \/ \E cls \in PartClasses : FreshPart(cls)
  \/ \E cls \in VehicleClasses, o \in Ids(heap) : MigrateVehicle(cls, o)
  \/ \E o \in Ids(heap) : MigratePart(o)
  \/ \E a \in Ids(heap), v \in Values : SetValue(a, v)
  \/ \E e \in Ids(heap) : \E f \in DOMAIN heap[e].flds : DropField(e, f)

Spec == Init /\ [][Next]_vars

\* ------------------------------------------------- the logging system
LogIdle == [op |-> "none", where |-> "none", dictionary |-> <<>>, allowed |-> NoAllowed, before |-> 0]

InitLog ==
  /\ heap = <<>>
  /\ prev = <<>>
  /\ failed = {}
  /\ last = LogIdle
  /\ nops = 0
  /\ nroots = 0
  /\ nset = 0
  /\ ndrop = 0
  /\ SUPPORT_IMAGES = FALSE
  /\ environ = Unset
  /\ log = <<>>

\* the operator sets or clears CARCONNECTIVITY_SHOW_EXTRA_KEYS
Setenv(e) ==
  /\ nops < MaxCalls
  /\ environ # e
  /\ environ' = e
  /\ last' = LogIdle
  /\ UNCHANGED <<heap, prev, failed, nops, nroots, nset, ndrop, SUPPORT_IMAGES, log>>

\* the API client reports the keys of an answer
LogExtraKeys(where, dictionary, allowed_keys) ==
  /\ nops < MaxCalls
  /\ log' = log_extra_keys(log, where, dictionary, allowed_keys, environ)
  /\ last' = [op |-> "log", where |-> where, dictionary |-> dictionary,
              allowed |-> allowed_keys, before |-> Len(log)]
  /\ nops' = nops + 1
  /\ UNCHANGED <<heap, prev, failed, nroots, nset, ndrop, SUPPORT_IMAGES, environ>>

NextLog ==
  \/ \E e \in {Unset} \cup {EnvValue(v) : v \in ToggleValues} : Setenv(e)
  \/ \E w \in Labels, d \in Dicts, a \in {NoAllowed} \cup {Allowed(ks) : ks \in AllowedSets} :
       LogExtraKeys(w, d, a)

SpecLog == InitLog /\ [][NextLog]_vars

\* ------------------------------------------------- _truncate on its own
TruncIdle == [op |-> "none", obj |-> <<>>]

InitTrunc ==
  /\ heap = <<>>
  /\ prev = <<>>
  /\ failed = {}
  /\ last = TruncIdle
  /\ nops = 0
  /\ nroots = 0
  /\ nset = 0
  /\ ndrop = 0
  /\ SUPPORT_IMAGES = FALSE
  /\ environ = Unset
  /\ log = <<>>

\* _truncate(obj): `log` holds the string it returned
Truncate(obj) ==
  /\ log' = <<truncate(obj, max_len)>>
  /\ last' = [op |-> "truncate", obj |-> obj]
  /\ UNCHANGED <<heap, prev, failed, nops, nroots, nset, ndrop, SUPPORT_IMAGES, environ>>

NextTrunc == \E obj \in TruncObjects : Truncate(obj)

SpecTrunc == InitTrunc /\ [][NextTrunc]_vars

\* ===================================================================
\* What the specification declares (spec section 3), for the claims
\* ===================================================================
\* the fields this package declares on an entity type
OwnFields(cls) ==
  CASE cls \in VehicleClasses ->
         {"capabilities", "in_motion", "raw_api", "extras", "renders", "composite_renders",
          "composite_render_urls", "title", "system_model_id", "priority", "device_platform",
          "skoda_state", "workshop_mode_enabled", "service_partner", "specification"}
    [] cls = "Specification" ->
         {"title", "manufacturing_date", "trim_level", "body", "exterior_colour", "model_year",
          "system_code", "system_model_id", "steering_wheel_position",
          "engine", "exteriorDimensions", "gearbox"}
    [] cls = "Engine" -> {"type", "powerInKW", "capacityInLiters"}
    [] cls = "ExteriorDimensions" -> {"lengthInMm", "widthInMm", "heightInMm"}
    [] cls = "Gearbox" -> {"type"}
    [] cls = "ServicePartner" -> {"service_partner_id"}
    [] OTHER -> {}

\* every field an instance holds: its own, the base vehicle's, the charging
\* object of the electric classes and the image cache of a build with PIL
AllDeclared(cls, images) ==
  OwnFields(cls)
    \cup (IF cls \in VehicleClasses THEN {"manufacturer", "climatization"} ELSE {})
    \cup (IF cls \in ElectricClasses THEN {"charging"} ELSE {})
    \cup (IF cls \in VehicleClasses /\ images THEN {"_car_images"} ELSE {})

\* the nested sub-entities of an entity type
NestedFields(cls) ==
  CASE cls \in VehicleClasses -> {"specification", "service_partner"}
    [] cls = "Specification" -> {"engine", "exteriorDimensions", "gearbox"}
    [] OTHER -> {}

Migrated == last.op = "migrate" /\ last.ok
Built == last.op \in {"fresh", "migrate"} /\ last.ok

\* -------------------------------------------------------------------
\* C1  Origin round-trip: after a completed migration E(origin=O), every
\* declared field F that O held is on E with the value O held, and its
\* parent is E; the same holds for the fields of every nested sub-entity,
\* and for an origin that was itself produced by a migration.
\* -------------------------------------------------------------------
RECURSIVE RoundTrip(_, _, _, _)
RoundTrip(p, h, O, E) ==
  \A F \in (DOMAIN p[O].flds) \cap OwnFields(h[E].cls) :
    /\ F \in DOMAIN h[E].flds
    /\ h[h[E].flds[F]].cls = p[p[O].flds[F]].cls
    /\ h[h[E].flds[F]].val = p[p[O].flds[F]].val
    /\ h[h[E].flds[F]].parent = E
    /\ IsEntity(p, p[O].flds[F]) => RoundTrip(p, h, p[O].flds[F], h[E].flds[F])

C1_OriginRoundTrip == Migrated => RoundTrip(prev, heap, last.origin, last.id)

\* a chain O -> E1 -> E2 whose last link carried a value set on O
C1_Witness ==
  /\ Migrated
  /\ heap[last.origin].org # 0
  /\ \E F \in DOMAIN heap[last.id].flds :
       /\ F \in OwnFields(last.cls)
       /\ heap[heap[last.id].flds[F]].val = "v1"
       /\ heap[heap[last.id].flds[F]].parent = last.id

\* -------------------------------------------------------------------
\* C2  Partial-origin tolerance: after a completed migration, every declared
\* field F the origin did not possess is present on the new entity, empty,
\* with the new entity as its parent (at every level of the tree).
\* -------------------------------------------------------------------
RECURSIVE PartialTolerant(_, _, _, _)
PartialTolerant(p, h, O, E) ==
  \A F \in OwnFields(h[E].cls) :
    /\ F \in DOMAIN h[E].flds
    /\ h[h[E].flds[F]].parent = E
    /\ F \notin DOMAIN p[O].flds => h[h[E].flds[F]].val = None
    /\ (F \in DOMAIN p[O].flds /\ IsEntity(p, p[O].flds[F]))
         => PartialTolerant(p, h, p[O].flds[F], h[E].flds[F])

C2_PartialOriginTolerance == Migrated => PartialTolerant(prev, heap, last.origin, last.id)

\* -------------------------------------------------------------------
\* C3  No migration constructor raises: every migration call returns an
\* entity.
\* -------------------------------------------------------------------
C3_NoMigrationRaises == last.op = "migrate" => last.ok

\* -------------------------------------------------------------------
\* C4  Ownership: every attribute and nested sub-entity a live entity holds
\* has that entity as its parent, and no object is held by two live entities.
\* -------------------------------------------------------------------
LiveEntities == {e \in Ids(heap) : IsEntity(heap, e) /\ Live(heap, failed, e)}
Held(e) == {heap[e].flds[f] : f \in (DOMAIN heap[e].flds) \ {"_car_images"}}

C4_Ownership ==
  /\ \A e \in LiveEntities : \A x \in Held(e) : heap[x].parent = e
  /\ \A e1, e2 \in LiveEntities : e1 # e2 => Held(e1) \cap Held(e2) = {}

\* as long as no migration raised, ownership is kept
C4_OwnershipWhileNothingRaised == failed = {} => C4_Ownership

\* -------------------------------------------------------------------
\* C5  Brand invariant: after any completed construction of a vehicle, fresh
\* or migrated, its manufacturer is the brand literal.
\* -------------------------------------------------------------------
C5_Brand ==
  (Built /\ last.cls \in VehicleClasses)
    => heap[heap[last.id].flds["manufacturer"]].val = Brand

\* a migration from an origin whose manufacturer held another value
C5_Witness ==
  /\ Migrated
  /\ last.cls \in VehicleClasses
  /\ prev[prev[last.origin].flds["manufacturer"]].val = "v1"
  /\ heap[heap[last.id].flds["manufacturer"]].val = Brand

\* -------------------------------------------------------------------
\* C6  Subtype-swap safety: a completed migration into SkodaElectricVehicle
\* leaves a newly built SkodaCharging owned by the new vehicle, migrated from
\* origin.charging for an electric origin and from the new vehicle's own
\* default charging object otherwise.
\* -------------------------------------------------------------------
C6_SubtypeSwap ==
  (Migrated /\ last.cls = "SkodaElectricVehicle") =>
    /\ "charging" \in DOMAIN heap[last.id].flds
    /\ LET c == heap[last.id].flds["charging"]
       IN /\ heap[c].cls = "SkodaCharging"
          /\ heap[c].parent = last.id
          /\ c \notin DOMAIN prev
          /\ IF prev[last.origin].cls \in ElectricClasses
             THEN heap[c].org = prev[last.origin].flds["charging"]
             ELSE /\ heap[c].org \notin DOMAIN prev
                  /\ heap[heap[c].org].cls = "Charging"
                  /\ heap[heap[c].org].parent = last.id

\* a vehicle without charging data became an electric vehicle
C6_Witness ==
  /\ Migrated
  /\ last.cls = "SkodaElectricVehicle"
  /\ prev[last.origin].cls \notin ElectricClasses
  /\ "charging" \notin DOMAIN prev[last.origin].flds
  /\ heap[heap[last.id].flds["charging"]].cls = "SkodaCharging"

\* -------------------------------------------------------------------
\* C7  Nested sub-entities are never shallow-copied: after a completed
\* migration every nested sub-entity of the new entity is a new instance,
\* built by its own migration constructor from the origin's sub-entity.
\* -------------------------------------------------------------------
RECURSIVE DeepMigrated(_, _, _, _)
DeepMigrated(p, h, O, E) ==
  \A F \in NestedFields(h[E].cls) \cap (DOMAIN h[E].flds) \cap (DOMAIN p[O].flds) :
    /\ h[E].flds[F] # p[O].flds[F]
    /\ h[E].flds[F] \notin DOMAIN p
    /\ h[h[E].flds[F]].org = p[O].flds[F]
    /\ DeepMigrated(p, h, p[O].flds[F], h[E].flds[F])

C7_NestedNeverShallow == Migrated => DeepMigrated(prev, heap, last.origin, last.id)

\* -------------------------------------------------------------------
\* C8  Default-construction completeness: a fresh construction leaves every
\* declared field present and empty (the manufacturer holds the brand) with
\* the entity as parent, at every level; and migrating from an origin that
\* holds all its fields, into the same type, leaves the same set of fields.
\* -------------------------------------------------------------------
RECURSIVE FreshlyBuilt(_, _, _)
FreshlyBuilt(h, e, images) ==
  /\ DOMAIN h[e].flds = AllDeclared(h[e].cls, images)
  /\ \A F \in DOMAIN h[e].flds :
       /\ F # "_car_images" => h[h[e].flds[F]].parent = e
       /\ h[h[e].flds[F]].val = (IF F = "manufacturer" THEN Brand ELSE None)
       /\ IsEntity(h, h[e].flds[F]) => FreshlyBuilt(h, h[e].flds[F], images)

RECURSIVE AllPresent(_, _, _)
AllPresent(h, e, images) ==
  /\ DOMAIN h[e].flds = AllDeclared(h[e].cls, images)
  /\ \A F \in NestedFields(h[e].cls) : AllPresent(h, h[e].flds[F], images)

C8_DefaultConstruction ==
  /\ last.op = "fresh" => FreshlyBuilt(heap, last.id, SUPPORT_IMAGES)
  /\ (Migrated /\ last.cls = prev[last.origin].cls
        /\ AllPresent(prev, last.origin, SUPPORT_IMAGES))
       => AllPresent(heap, last.id, SUPPORT_IMAGES)

\* a fresh electric vehicle, and a same-type migration from a complete origin
C8_Witness ==
  \/ /\ last.op = "fresh"
     /\ last.cls = "SkodaElectricVehicle"
     /\ SUPPORT_IMAGES
     /\ Cardinality(DOMAIN heap[last.id].flds) = 19
  \/ /\ Migrated
     /\ last.cls = "Specification"
     /\ AllPresent(prev, last.origin, SUPPORT_IMAGES)
     /\ Cardinality(DOMAIN heap[last.id].flds) = 12

\* -------------------------------------------------------------------
\* C9  log_extra_keys severity.  As claimed: a record is logged at INFO
\* exactly when the toggle is '1' or is 'true' in any letter case.
\* -------------------------------------------------------------------
Lower(c) ==
  CASE c = "T" -> "t" [] c = "R" -> "r" [] c = "U" -> "u" [] c = "E" -> "e" [] OTHER -> c
LowerCase(chars) == [i \in DOMAIN chars |-> Lower(chars[i])]
Logged == last.op = "log" /\ Len(log) = last.before + 1

C9_SeverityAnyCase ==
  Logged =>
    (log[Len(log)].level = "INFO"
       <=> (environ.set /\ (environ.val = <<"1">>
                              \/ LowerCase(environ.val) = <<"t", "r", "u", "e">>)))

\* C9 as the code has it: a record is logged at INFO exactly when the toggle
\* is set to '1', 'true' or 'True'; any other value, 'TRUE' included, and an
\* unset toggle log at DEBUG.
C9_Severity ==
  Logged =>
    /\ log[Len(log)].level \in {"INFO", "DEBUG"}
    /\ log[Len(log)].level = "INFO"
         <=> (environ.set /\ environ.val \in
                {<<"1">>, <<"t", "r", "u", "e">>, <<"T", "r", "u", "e">>})

\* a record logged at DEBUG while the toggle is 'TRUE'
C9_Witness ==
  /\ Logged
  /\ environ = EnvValue(<<"T", "R", "U", "E">>)
  /\ log[Len(log)].level = "DEBUG"

\* -------------------------------------------------------------------
\* C10  log_extra_keys extra-key detection: the extra keys are the keys of
\* the mapping that are not allowed (None allows nothing); with no extra key
\* the call logs nothing, otherwise it logs exactly one record, which holds
\* the context label, the extra keys and the rendering of the mapping with
\* its credential values redacted, cut after max_len characters and closed
\* with '...' when it is longer than that.
\* -------------------------------------------------------------------
Contains(chars, c) == \E i \in DOMAIN chars : chars[i] = c

\* the mapping with every credential value replaced by '***', serialized
RedactedForm(d) ==
  dumps([i \in DOMAIN d |->
           [k |-> d[i].k,
            v |-> IF d[i].k \in CredentialKeys THEN <<"*", "*", "*">> ELSE d[i].v]])

C10_ExtraKeys ==
  last.op = "log" =>
    LET extra == {k \in DictKeys(last.dictionary) :
                    last.allowed.none \/ k \notin last.allowed.keys}
        form == RedactedForm(last.dictionary)
    IN /\ Len(log) = last.before + (IF extra = {} THEN 0 ELSE 1)
       /\ extra # {} =>
            /\ log[Len(log)].where = last.where
            /\ log[Len(log)].extra = extra
            /\ ~Contains(log[Len(log)].dictionary, "#")
            /\ IF Len(form) > max_len
               THEN /\ Len(log[Len(log)].dictionary) = max_len + 3
                    /\ SubSeq(log[Len(log)].dictionary, 1, max_len) = SubSeq(form, 1, max_len)
                    /\ SubSeq(log[Len(log)].dictionary, max_len + 1, max_len + 3)
                         = <<".", ".", ".">>
               ELSE log[Len(log)].dictionary = form

\* the second call logs a record for a mapping that holds a credential and a
\* blob: the rendering is redacted and cut, after a first call that logged too
C10_Witness ==
  /\ last.op = "log"
  /\ last.before = 1
  /\ Len(log) = 2
  /\ log[2].extra = {"password", "blob"}
  /\ \E i \in DOMAIN last.dictionary :
       last.dictionary[i].k = "password" /\ last.dictionary[i].v = <<"#", "#", "#">>
  /\ Len(RedactedForm(last.dictionary)) > max_len
  /\ Len(log[2].dictionary) = max_len + 3
  /\ Contains(log[2].dictionary, "*")

\* a call whose allowed keys cover the mapping logs nothing
C10_WitnessSilent ==
  /\ last.op = "log"
  /\ last.dictionary # <<>>
  /\ Len(log) = last.before

\* -------------------------------------------------------------------
\* C11  Truncation bound: a mapping whose serialized form is longer than
\* max_len is rendered as its first max_len characters followed by '...'
\* (so the rendering ends with an ellipsis and has at most max_len + 3
\* characters); a serialized form of at most max_len characters is rendered
\* unchanged; and a mapping json.dumps rejects is rendered from str(obj).
\* -------------------------------------------------------------------
Truncated == last.op = "truncate" /\ Len(log) = 1

C11_TruncationBound ==
  last.op = "truncate" =>
    /\ Len(log) = 1
    /\ LET form == IF dumps_raises(last.obj) THEN str(last.obj) ELSE dumps(last.obj)
           out == log[1]
       IN IF Len(form) > max_len
          THEN /\ Len(out) = max_len + 3
               /\ Len(out) <= 303
               /\ SubSeq(out, 1, max_len) = SubSeq(form, 1, max_len)
               /\ SubSeq(out, max_len + 1, max_len + 3) = <<".", ".", ".">>
          ELSE out = form

\* a serialized form of max_len + 1 characters was cut, one of exactly max_len
\* characters is the boundary left whole
C11_Witness ==
  /\ Truncated
  /\ ~dumps_raises(last.obj)
  /\ Len(dumps(last.obj)) = max_len + 1
  /\ Len(log[1]) = max_len + 3
  /\ log[1][max_len + 3] = "."

\* a mapping with a tuple key was rendered by the fallback
C11_WitnessFallback ==
  /\ Truncated
  /\ dumps_raises(last.obj)
  /\ Len(str(last.obj)) > max_len
  /\ log[1][2] = "("

\* -------------------------------------------------------------------
\* C12  ServicePartner value copy: a migration of a ServicePartner builds a
\* new service_partner_id attribute owned by the new instance, holding the
\* origin's value when the origin has the field with a value and empty
\* otherwise; the origin keeps its attribute, with its value and its parent.
\* -------------------------------------------------------------------
PartnerId == "service_partner_id"

C12_ServicePartnerValueCopy ==
  (Migrated /\ last.cls = "ServicePartner") =>
    /\ PartnerId \in DOMAIN heap[last.id].flds
    /\ heap[last.id].flds[PartnerId] \notin DOMAIN prev
    /\ heap[heap[last.id].flds[PartnerId]].cls = "attr"
    /\ heap[heap[last.id].flds[PartnerId]].parent = last.id
    /\ heap[heap[last.id].flds[PartnerId]].val =
         (IF PartnerId \in DOMAIN prev[last.origin].flds
          THEN prev[prev[last.origin].flds[PartnerId]].val
          ELSE None)
    /\ \A x \in DOMAIN prev : heap[x] = prev[x]

\* a ServicePartner holding a value was migrated: the value is on both
\* instances, in two attribute objects
C12_Witness ==
  /\ Migrated
  /\ last.cls = "ServicePartner"
  /\ PartnerId \in DOMAIN heap[last.origin].flds
  /\ heap[heap[last.origin].flds[PartnerId]].val = "v1"
  /\ heap[heap[last.origin].flds[PartnerId]].parent = last.origin
  /\ heap[heap[last.id].flds[PartnerId]].val = "v1"
  /\ heap[last.id].flds[PartnerId] # heap[last.origin].flds[PartnerId]

====
